---- MODULE Spec2Model ----
(***************************************************************************)
(* The category tree of the shoeshop backend (products app): the Category  *)
(* table, and the create / update / destroy handlers of CategoryViewSet    *)
(* with CategoryCreateUpdateSerializer and Category.clean / save.          *)
(*                                                                         *)
(* Strings that the code transforms (names, slugs, top_level_category) are *)
(* sequences of one-character strings, so that lower(), capitalize() and   *)
(* slugify() are computed and not assumed.  Optional request fields are    *)
(* <<>> (key absent) or <<v>> (key present with value v).                  *)
(***************************************************************************)
EXTENDS Integers, Sequences, FiniteSets, TLC

(***************************************************************************)
(* Bounds of the model.                                                    *)
(***************************************************************************)
\* primary keys handed out by the table: 1..MaxId
MaxId == 3
\* how many keys the body of an update request may hold
MaxUpdateFields == 2

(***************************************************************************)
(* Characters and strings.                                                 *)
(***************************************************************************)
UpperChars == <<"A","B","C","D","E","F","G","H","I","J","K","L","M",
                "N","O","P","Q","R","S","T","U","V","W","X","Y","Z">>
LowerChars == <<"a","b","c","d","e","f","g","h","i","j","k","l","m",
                "n","o","p","q","r","s","t","u","v","w","x","y","z">>
DigitChars == <<"0","1","2","3","4","5","6","7","8","9">>

Range(s) == {s[i] : i \in DOMAIN s}

UpperSet == Range(UpperChars)
LowerSet == Range(LowerChars)
DigitSet == Range(DigitChars)

IsUpper(c) == c \in UpperSet
IsLower(c) == c \in LowerSet
IsDigit(c) == c \in DigitSet

\* str.lower() on one character
lower(c) ==
    IF IsUpper(c) THEN LowerChars[CHOOSE i \in 1..26 : UpperChars[i] = c] ELSE c

\* str.upper() on one character
upper(c) ==
    IF IsLower(c) THEN UpperChars[CHOOSE i \in 1..26 : LowerChars[i] = c] ELSE c

\* str.lower()
str_lower(s) == [i \in 1..Len(s) |-> lower(s[i])]

\* str.capitalize(): first character upper-cased, the rest lower-cased
capitalize(s) == [i \in 1..Len(s) |-> IF i = 1 THEN upper(s[i]) ELSE lower(s[i])]

\* str(n) for a natural number n
RECURSIVE str(_)
str(n) == IF n < 10 THEN <<DigitChars[n + 1]>>
          ELSE Append(str(n \div 10), DigitChars[(n % 10) + 1])

\* \w of the regular expressions, on the ASCII characters names can hold
IsWordChar(c) == IsUpper(c) \/ IsLower(c) \/ IsDigit(c) \/ c = "_"

\* [-\s]
IsDashOrSpace(c) == c \in {"-", " "}

RECURSIVE lstrip(_)
lstrip(s) == IF s # <<>> /\ Head(s) \in {"-", "_"} THEN lstrip(Tail(s)) ELSE s

RECURSIVE rstrip(_)
rstrip(s) == IF s # <<>> /\ s[Len(s)] \in {"-", "_"}
             THEN rstrip(SubSeq(s, 1, Len(s) - 1)) ELSE s

(***************************************************************************)
(* django.utils.text.slugify(value):                                       *)
(*   value = re.sub(r"[^\w\s-]", "", value.lower())                        *)
(*   return re.sub(r"[-\s]+", "-", value).strip("-_")                      *)
(***************************************************************************)
slugify(value) ==
    LET low  == str_lower(value)
        kept == SelectSeq(low, LAMBDA c : IsWordChar(c) \/ IsDashOrSpace(c))
        idx  == SelectSeq([i \in 1..Len(kept) |-> i],
                          LAMBDA i : \/ ~IsDashOrSpace(kept[i])
                                     \/ i = 1
                                     \/ ~IsDashOrSpace(kept[i - 1]))
        runs == [k \in 1..Len(idx) |->
                    IF IsDashOrSpace(kept[idx[k]]) THEN "-" ELSE kept[idx[k]]]
    IN  rstrip(lstrip(runs))

(***************************************************************************)
(* products/choices.py                                                     *)
(***************************************************************************)
SHOES    == <<"s","h","o","e","s">>
CLOTHING == <<"c","l","o","t","h","i","n","g">>

\* CategoryChoices.values, in declaration order
CategoryChoicesValues == <<SHOES, CLOTHING>>

\* dict(CategoryChoices.choices)[value]: the label of a choice
CategoryChoicesLabel(value) ==
    IF value = SHOES THEN <<"S","h","o","e","s">>
    ELSE <<"C","l","o","t","h","i","n","g">>

\* CategoryStatusChoices.values
CategoryStatusChoicesValues == {"draft", "active", "inactive", "archived"}

\* Category.status default
DefaultStatus == "active"

\* settings.CATEGORY_MAX_DEPTH, defaulting to 3
CATEGORY_MAX_DEPTH == 3

\* Category.name max_length
NameMaxLength == 15

(***************************************************************************)
(* The Category table.  A row is                                           *)
(*   [name, slug, description, parent, top_level_category, status, order]  *)
(* keyed by its primary key; parent = NoParent is a NULL parent and        *)
(* top_level_category = NoType a NULL top_level_category.                  *)
(***************************************************************************)
VARIABLES
    categories,   \* the rows of the Category table, by primary key
    nextId,       \* the next value of the table's AutoField
    calls         \* the create requests being served at the same time, by worker

vars == <<categories, nextId, calls>>

NoParent == 0
NoType   == <<>>
NoInstance == 0

\* an optional request field: <<>> when the key is absent, <<v>> when present
Has(f) == f # <<>>
Val(f) == f[1]

\* Category.objects.filter(parent=p) (p = NoParent: parent__isnull=True)
Children(cats, p) == {c \in DOMAIN cats : cats[c].parent = p}

\* the largest element of a non-empty set of numbers (models.Max)
MaxOf(S) == CHOOSE m \in S : \A x \in S : x <= m

(***************************************************************************)
(* products/utils.py: assign_category_order.  Both branches aggregate      *)
(* Max('order') over the rows with the same parent, "or 0", plus one; when *)
(* the query raises (lookup_raises), the except branch returns 1.          *)
(***************************************************************************)
\* assign_category_order whose except branch returns 0
assign_category_order_or_zero(cats, parent_category, lookup_raises) ==
    IF lookup_raises THEN 0
    ELSE LET orders == {cats[c].order : c \in Children(cats, parent_category)}
             max_order == IF orders = {} THEN 0 ELSE MaxOf(orders)
         IN  max_order + 1

assign_category_order(cats, parent_category, lookup_raises) ==
    IF lookup_raises THEN 1
    ELSE LET orders == {cats[c].order : c \in Children(cats, parent_category)}
             max_order == IF orders = {} THEN 0 ELSE MaxOf(orders)
         IN  max_order + 1

(***************************************************************************)
(* Category.clean, lines 59-67: the slug of a row that has none.           *)
(***************************************************************************)
SlugTaken(cats, pk, s) == \E c \in DOMAIN cats \ {pk} : cats[c].slug = s

RECURSIVE NextFreeSlug(_, _, _, _)
NextFreeSlug(cats, pk, base_slug, counter) ==
    LET unique_slug == base_slug \o <<"-">> \o str(counter)
    IN  IF SlugTaken(cats, pk, unique_slug)
        THEN NextFreeSlug(cats, pk, base_slug, counter + 1)
        ELSE unique_slug

UniqueSlug(cats, pk, base_slug) ==
    IF SlugTaken(cats, pk, base_slug)
    THEN NextFreeSlug(cats, pk, base_slug, 1)
    ELSE base_slug

\* validators.py: validate_category_status / validate_top_level_category
validate_category_status(value) == value \in CategoryStatusChoicesValues
validate_top_level_category(value) == value \in Range(CategoryChoicesValues)

\* Category.clean raises ValidationError
CleanRaises(row) ==
    \/ ~validate_category_status(row.status)
    \/ row.top_level_category # NoType
         /\ ~validate_top_level_category(row.top_level_category)

\* clean that leaves the name of a row with a top_level_category alone
cleanKeepsName(cats, pk, row, lookup_raises) ==
    LET slugged == IF row.slug = <<>>
                   THEN [row EXCEPT !.slug = UniqueSlug(cats, pk, slugify(row.name))]
                   ELSE row
    IN  IF slugged.order = 0
        THEN [slugged EXCEPT !.order = assign_category_order(cats, slugged.parent, lookup_raises)]
        ELSE slugged

(***************************************************************************)
(* Category.clean on a row with primary key pk (NoInstance before the      *)
(* first save): the name of a row with a top_level_category is that        *)
(* choice's label; a missing slug and a missing order are assigned.        *)
(***************************************************************************)
clean(cats, pk, row, lookup_raises) ==
    LET named == IF row.top_level_category # NoType
                 THEN [row EXCEPT !.name = CategoryChoicesLabel(row.top_level_category)]
                 ELSE row
        slugged == IF named.slug = <<>>
                   THEN [named EXCEPT !.slug = UniqueSlug(cats, pk, slugify(named.name))]
                   ELSE named
    IN  IF slugged.order = 0
        THEN [slugged EXCEPT !.order = assign_category_order(cats, slugged.parent, lookup_raises)]
        ELSE slugged

\* a table whose name column is not unique
IntegrityErrorSlugOnly(cats, pk, row) ==
    \E c \in DOMAIN cats \ {pk} : cats[c].slug = row.slug

\* a table whose slug column is not unique
IntegrityErrorNameOnly(cats, pk, row) ==
    \E c \in DOMAIN cats \ {pk} : cats[c].name = row.name

\* the unique=True constraints of name and slug, checked by the database on
\* INSERT and UPDATE: IntegrityError
IntegrityError(cats, pk, row) ==
    \E c \in DOMAIN cats \ {pk} :
        cats[c].name = row.name \/ cats[c].slug = row.slug

(***************************************************************************)
(* Field-level validation of CategoryCreateUpdateSerializer (the fields of *)
(* Meta, built from the model fields): what is_valid() rejects before      *)
(* validate() runs.                                                        *)
(***************************************************************************)
\* validators.py: validate_name, the regular expression and the length
validate_name(name) ==
    /\ \A i \in 1..Len(name) :
          \/ IsUpper(name[i]) \/ IsLower(name[i]) \/ IsDigit(name[i])
          \/ name[i] \in {" ", "-", "'", "&"}
    /\ Len(name) >= 3

\* name: blank is allowed and skips the validators; otherwise validate_name,
\* max_length and the UniqueValidator, which leaves out the instance updated
NameFieldError(cats, instance, req) ==
    /\ Has(req.name)
    /\ Val(req.name) # <<>>
    /\ \/ ~validate_name(Val(req.name))
       \/ Len(Val(req.name)) > NameMaxLength
       \/ \E c \in DOMAIN cats \ {instance} : cats[c].name = Val(req.name)

FieldErrors(cats, instance, partial, req) ==
    \/ NameFieldError(cats, instance, req)
    \/ ~partial /\ ~Has(req.description)
    \/ Has(req.parent) /\ Val(req.parent) # NoParent
         /\ Val(req.parent) \notin DOMAIN cats
    \/ Has(req.status) /\ Val(req.status) \notin CategoryStatusChoicesValues
    \/ Has(req.top_level_category)
         /\ Val(req.top_level_category) \notin Range(CategoryChoicesValues)

\* data.get('parent'), data.get('top_level_category'): truthy
ParentGiven(req) == Has(req.parent) /\ Val(req.parent) # NoParent
TypeGiven(req) == Has(req.top_level_category) /\ Val(req.top_level_category) # <<>>

\* the walk with the comparison off by one: depth >= max_depth
RECURSIVE DepthWalkOffByOne(_, _, _)
DepthWalkOffByOne(cats, parent, depth) ==
    IF parent = NoParent THEN FALSE
    ELSE IF depth + 1 >= CATEGORY_MAX_DEPTH THEN TRUE
    ELSE DepthWalkOffByOne(cats, cats[parent].parent, depth + 1)

\* validate without the depth walk
DepthNeverExceeded(cats, parent) == FALSE

(***************************************************************************)
(* CategoryCreateUpdateSerializer.validate, lines 163-174: the walk up the *)
(* parent chain, depth starting at 1 and raised once per hop, the None     *)
(* above the root included.                                                *)
(***************************************************************************)
RECURSIVE DepthWalk(_, _, _)
DepthWalk(cats, parent, depth) ==
    IF parent = NoParent THEN FALSE
    ELSE IF depth + 1 > CATEGORY_MAX_DEPTH THEN TRUE
    ELSE DepthWalk(cats, cats[parent].parent, depth + 1)

\* the walk with its count starting at 0
DepthExceededFromZero(cats, parent) == DepthWalk(cats, parent, 0)

DepthExceeded(cats, parent) == DepthWalk(cats, parent, 1)

\* the "both" check sits in the update branch only
BothCheck(instance, req) ==
    instance # NoInstance /\ ParentGiven(req) /\ TypeGiven(req)

\* the "neither" check sits in the create branch only
MissingCheck(instance, req) ==
    instance = NoInstance /\ ~ParentGiven(req) /\ ~TypeGiven(req)

\* validate without the exists() query on top_level_category
NoDuplicateTypeCheck(cats, instance, req) == FALSE

\* lines 144-154: another row already carries the (lower-cased) type
DuplicateTypeCheck(cats, instance, req) ==
    /\ TypeGiven(req)
    /\ \E c \in DOMAIN cats \ {instance} :
          cats[c].top_level_category = str_lower(Val(req.top_level_category))

\* validate(data): the error raised, or "ok"
validate(cats, instance, req) ==
    IF DuplicateTypeCheck(cats, instance, req) THEN "DuplicateTopLevelType"
    ELSE IF MissingCheck(instance, req) THEN "MissingParentOrType"
    ELSE IF BothCheck(instance, req) THEN "BothParentAndType"
    ELSE IF ParentGiven(req) /\ DepthExceeded(cats, Val(req.parent))
         THEN "MaxDepthExceeded"
    ELSE "ok"

\* order writable: a supplied value reaches validated_data
SuppliedOrder(req) == IF Has(req.order) THEN Val(req.order) ELSE 0

\* order is in Meta.read_only_fields (and not editable): a supplied value
\* never reaches validated_data, the new row starts with the default 0
ValidatedOrder(req) == 0

\* create that takes the name of the request for a top-level row too
createFromSuppliedName(req) ==
    LET type == IF TypeGiven(req) THEN str_lower(Val(req.top_level_category))
                ELSE NoType
        name == IF Has(req.name) THEN Val(req.name) ELSE capitalize(type)
    IN  [name        |-> name,
         slug        |-> IF ~ParentGiven(req) THEN slugify(name) ELSE <<>>,
         description |-> Val(req.description),
         parent      |-> IF ParentGiven(req) THEN Val(req.parent) ELSE NoParent,
         top_level_category |-> type,
         status      |-> IF Has(req.status) THEN Val(req.status) ELSE DefaultStatus,
         order       |-> ValidatedOrder(req)]

(***************************************************************************)
(* CategoryCreateUpdateSerializer.create: the row handed to                *)
(* Category.objects.create, before Category.save calls clean().            *)
(***************************************************************************)
create(req) ==
    LET type == IF TypeGiven(req) THEN str_lower(Val(req.top_level_category))
                ELSE NoType
        top_name == capitalize(str_lower(type))
    IN  [name        |-> IF ~ParentGiven(req) THEN top_name
                         ELSE IF Has(req.name) THEN Val(req.name) ELSE <<>>,
         slug        |-> IF ~ParentGiven(req) THEN slugify(top_name) ELSE <<>>,
         description |-> Val(req.description),
         parent      |-> IF ParentGiven(req) THEN Val(req.parent) ELSE NoParent,
         top_level_category |-> type,
         status      |-> IF Has(req.status) THEN Val(req.status) ELSE DefaultStatus,
         order       |-> ValidatedOrder(req)]

Outcome(cats, next, op, code) ==
    [cats |-> cats, next |-> next, resp |-> [op |-> op, code |-> code]]

Put(cats, pk, row) == [c \in DOMAIN cats \cup {pk} |-> IF c = pk THEN row ELSE cats[c]]

(***************************************************************************)
(* CategoryViewSet.create: is_valid, validate, create, Category.save.      *)
(***************************************************************************)
CreateView(cats, next, req, lookup_raises) ==
    IF FieldErrors(cats, NoInstance, FALSE, req)
    THEN Outcome(cats, next, "create", "ValidationError")
    ELSE LET verdict == validate(cats, NoInstance, req) IN
    IF verdict # "ok" THEN Outcome(cats, next, "create", verdict)
    ELSE IF CleanRaises(create(req))
    THEN Outcome(cats, next, "create", "ValidationError")
    ELSE LET row == clean(cats, NoInstance, create(req), lookup_raises) IN
    IF IntegrityError(cats, NoInstance, row)
    THEN Outcome(cats, next, "create", "IntegrityError")
    ELSE Outcome(Put(cats, next, row), next + 1, "create", "Created")

(***************************************************************************)
(* CategoryViewSet.get_queryset: the rows a detail request can address.    *)
(* Without is_active only active rows; "all" gives every row; any other    *)
(* value gives the active rows when it is "true" and the inactive ones     *)
(* otherwise.  parent_id, when given, keeps the children of that row.      *)
(***************************************************************************)
ALL_STR  == <<"a","l","l">>
TRUE_STR == <<"t","r","u","e">>

\* get_queryset that filters by status only when is_active is sent
get_queryset_all_by_default(cats, query) ==
    LET by_status ==
            IF Has(query.is_active) /\ str_lower(Val(query.is_active)) # ALL_STR
            THEN {c \in DOMAIN cats :
                    cats[c].status = IF str_lower(Val(query.is_active)) = TRUE_STR
                                     THEN "active" ELSE "inactive"}
            ELSE DOMAIN cats
    IN  IF Has(query.parent_id)
        THEN {c \in by_status : cats[c].parent = Val(query.parent_id)}
        ELSE by_status

get_queryset(cats, query) ==
    LET by_status ==
            IF ~Has(query.is_active)
            THEN {c \in DOMAIN cats : cats[c].status = "active"}
            ELSE IF str_lower(Val(query.is_active)) # ALL_STR
            THEN {c \in DOMAIN cats :
                    cats[c].status = IF str_lower(Val(query.is_active)) = TRUE_STR
                                     THEN "active" ELSE "inactive"}
            ELSE DOMAIN cats
    IN  IF Has(query.parent_id)
        THEN {c \in by_status : cats[c].parent = Val(query.parent_id)}
        ELSE by_status

\* a delete that takes the children of the row and stops there
CascadeChildrenOnly(cats, S) ==
    S \cup {c \in DOMAIN cats : cats[c].parent \in S}

\* on_delete=models.CASCADE on parent: the rows deleted with the rows of S
RECURSIVE Cascade(_, _)
Cascade(cats, S) ==
    LET more == S \cup {c \in DOMAIN cats : cats[c].parent \in S}
    IN  IF more = S THEN S ELSE Cascade(cats, more)

(***************************************************************************)
(* CategoryViewSet.update, lines 127-145: a status in the request that     *)
(* differs is set on the instance and the instance cleaned, before the     *)
(* serializer sees the request.                                            *)
(***************************************************************************)
ViewStatus(cats, pk, req) ==
    IF Has(req.status) /\ cats[pk].status # Val(req.status)
    THEN clean(cats, pk, [cats[pk] EXCEPT !.status = Val(req.status)], FALSE)
    ELSE cats[pk]

\* update() without the two checks on a row that has no parent
UpdateChecksRootsEditable(cats, pk, instance, req) ==
    IF Has(req.top_level_category) THEN "ImmutableTopLevelField"
    ELSE IF ParentGiven(req) /\ Val(req.parent) = pk THEN "SelfParent"
    ELSE IF ParentGiven(req) /\ cats[Val(req.parent)].parent = NoParent
         THEN "InvalidParentIsRoot"
    ELSE "ok"

\* update() without the check on 'top_level_category' in validated_data
UpdateChecksTypeEditable(cats, pk, instance, req) ==
    IF instance.parent = NoParent /\ Has(req.name) THEN "ImmutableTopLevelField"
    ELSE IF instance.parent = NoParent /\ Has(req.parent) THEN "ImmutableTopLevelField"
    ELSE IF ParentGiven(req) /\ Val(req.parent) = pk THEN "SelfParent"
    ELSE IF ParentGiven(req) /\ cats[Val(req.parent)].parent = NoParent
         THEN "InvalidParentIsRoot"
    ELSE "ok"

\* update() without the comparison of the new parent with the instance
UpdateChecksNoSelfCheck(cats, pk, instance, req) ==
    IF instance.parent = NoParent /\ Has(req.name) THEN "ImmutableTopLevelField"
    ELSE IF instance.parent = NoParent /\ Has(req.parent) THEN "ImmutableTopLevelField"
    ELSE IF Has(req.top_level_category) THEN "ImmutableTopLevelField"
    ELSE IF ParentGiven(req) /\ cats[Val(req.parent)].parent = NoParent
         THEN "InvalidParentIsRoot"
    ELSE "ok"

\* update() without the check that the new parent has a parent
UpdateChecksRootParentAllowed(cats, pk, instance, req) ==
    IF instance.parent = NoParent /\ Has(req.name) THEN "ImmutableTopLevelField"
    ELSE IF instance.parent = NoParent /\ Has(req.parent) THEN "ImmutableTopLevelField"
    ELSE IF Has(req.top_level_category) THEN "ImmutableTopLevelField"
    ELSE IF ParentGiven(req) /\ Val(req.parent) = pk THEN "SelfParent"
    ELSE "ok"

(***************************************************************************)
(* CategoryCreateUpdateSerializer.update, lines 194-213: the error raised, *)
(* or "ok".                                                                *)
(***************************************************************************)
UpdateChecks(cats, pk, instance, req) ==
    IF instance.parent = NoParent /\ Has(req.name) THEN "ImmutableTopLevelField"
    ELSE IF instance.parent = NoParent /\ Has(req.parent) THEN "ImmutableTopLevelField"
    ELSE IF Has(req.top_level_category) THEN "ImmutableTopLevelField"
    ELSE IF ParentGiven(req) /\ Val(req.parent) = pk THEN "SelfParent"
    ELSE IF ParentGiven(req) /\ cats[Val(req.parent)].parent = NoParent
         THEN "InvalidParentIsRoot"
    ELSE "ok"

(***************************************************************************)
(* The instance as update() and ModelSerializer.update leave it before     *)
(* save(): status, name with its slug re-derived, and every validated      *)
(* field set with setattr, a parent of None included.                      *)
(***************************************************************************)
update(instance, req) ==
    [instance EXCEPT
        !.status      = IF Has(req.status) THEN Val(req.status) ELSE @,
        !.name        = IF Has(req.name) THEN Val(req.name) ELSE @,
        !.slug        = IF Has(req.name) THEN slugify(Val(req.name)) ELSE @,
        !.description = IF Has(req.description) THEN Val(req.description) ELSE @,
        !.parent      = IF Has(req.parent) THEN Val(req.parent) ELSE @,
        !.top_level_category =
            IF Has(req.top_level_category)
            THEN str_lower(Val(req.top_level_category)) ELSE @]

\* update saves a row whose order is set, so clean runs no order query on it
UpdateView(cats, next, pk, query, method, req) ==
    IF pk \notin get_queryset(cats, query)
    THEN Outcome(cats, next, "update", "NotFound")
    ELSE IF Has(req.status) /\ Val(req.status) \notin CategoryStatusChoicesValues
    THEN Outcome(cats, next, "update", "InvalidStatus")
    ELSE IF CleanRaises(ViewStatus(cats, pk, req)) \/ FieldErrors(cats, pk, method = "PATCH", req)
    THEN Outcome(cats, next, "update", "ValidationError")
    ELSE LET verdict == validate(cats, pk, req) IN
    IF verdict # "ok" THEN Outcome(cats, next, "update", verdict)
    ELSE LET instance == ViewStatus(cats, pk, req)
             checks   == UpdateChecks(cats, pk, instance, req) IN
    IF checks # "ok" THEN Outcome(cats, next, "update", checks)
    ELSE LET row == clean(cats, pk, update(instance, req), FALSE) IN
    IF IntegrityError(cats, pk, row)
    THEN Outcome(cats, next, "update", "IntegrityError")
    ELSE Outcome(Put(cats, pk, row), next, "update", "Updated")

(***************************************************************************)
(* CategoryViewSet.destroy: get_object, then instance.delete() with the    *)
(* cascade over parent.                                                    *)
(***************************************************************************)
DestroyView(cats, next, pk, query) ==
    IF pk \notin get_queryset(cats, query)
    THEN Outcome(cats, next, "destroy", "NotFound")
    ELSE LET gone == Cascade(cats, {pk})
         IN  Outcome([c \in DOMAIN cats \ gone |-> cats[c]], next,
                     "destroy", "Deleted")

(***************************************************************************)
(* Requests.                                                               *)
(***************************************************************************)
Opt(S) == {<<>>} \cup {<<v>> : v \in S}

Ids == 1..MaxId

\* names requests use: two that differ in case only (one slug), and one
\* whose slug is the slug of the "shoes" top-level category
Names == { <<"M","e","n">>, <<"m","e","n">>, <<"s","h","o","e","s">> }
Statuses == {"active", "inactive"}
Types == {SHOES, CLOTHING}
Descriptions == {"d1"}
\* caller-supplied values of the read-only order
Orders == {7}
\* values of the is_active query parameter
IsActives == {ALL_STR}
\* values of the parent_id query parameter
ParentIds == {}
\* update is reached by PATCH (partial) and by PUT
Methods == {"PATCH"}

Queries == [is_active : Opt(IsActives), parent_id : Opt(ParentIds)]

CreateRequests ==
    [name : Opt(Names), description : Opt(Descriptions), parent : Opt(Ids),
     status : Opt(Statuses), order : Opt(Orders),
     top_level_category : Opt(Types)]

\* how many keys a request holds
FieldCount(req) == Cardinality({f \in DOMAIN req : Has(req[f])})

UpdateRequests ==
    {req \in [name : Opt(Names), description : Opt(Descriptions),
              parent : Opt(Ids \cup {NoParent}),
              status : Opt(Statuses), order : {<<>>},
              top_level_category : Opt(Types)] :
        FieldCount(req) <= MaxUpdateFields}

EmptyRequest ==
    [name |-> <<>>, description |-> <<>>, parent |-> <<>>, status |-> <<>>,
     order |-> <<>>, top_level_category |-> <<>>]

(***************************************************************************)
(* The state machine: an empty table, and one step per request.            *)
(***************************************************************************)
\* the workers that serve requests at the same time, and a worker that
\* serves none
Workers == {"w1", "w2"}

NoRow == <<>>

Call(phase, req, row, code, pk) ==
    [phase |-> phase, req |-> req, row |-> row, code |-> code, pk |-> pk]

NoCalls == [w \in Workers |-> Call("idle", EmptyRequest, NoRow, "", NoInstance)]

\* the table after a request that is served alone; its response goes to the
\* caller
Apply(out) ==
    /\ categories' = out.cats
    /\ nextId' = out.next
    /\ UNCHANGED calls

Init ==
    /\ categories = <<>>
    /\ nextId = 1
    /\ calls = NoCalls

CreateCategory ==
    /\ nextId <= MaxId
    /\ \E req \in CreateRequests : Apply(CreateView(categories, nextId, req, FALSE))

\* a request whose row is not found ends the same whatever its body
UpdateWith(ids, requests) ==
    \E pk \in ids, query \in Queries :
        \E method \in Methods,
           req \in IF pk \in get_queryset(categories, query)
                   THEN requests ELSE {EmptyRequest} :
            Apply(UpdateView(categories, nextId, pk, query, method, req))

DeleteWith(ids) ==
    \E pk \in ids, query \in Queries :
        Apply(DestroyView(categories, nextId, pk, query))

UpdateCategory == UpdateWith(Ids, UpdateRequests)

DeleteCategory == DeleteWith(Ids)

Next == CreateCategory \/ UpdateCategory \/ DeleteCategory

Spec == Init /\ [][Next]_vars

(***************************************************************************)
(* The tables that creates and deletes alone lead to.                      *)
(***************************************************************************)
NextCreateDelete == CreateCategory \/ DeleteCategory

SpecCreateDelete == Init /\ [][NextCreateDelete]_vars

(***************************************************************************)
(* The tables that creates and deletes lead to when the query for the      *)
(* largest sibling order may raise in any of the creates.                  *)
(***************************************************************************)
CreateCategoryDegraded ==
    /\ nextId <= MaxId
    /\ \E req \in CreateRequests, lookup_raises \in BOOLEAN :
          Apply(CreateView(categories, nextId, req, lookup_raises))

NextDegraded == CreateCategoryDegraded \/ DeleteCategory

SpecDegraded == Init /\ [][NextDegraded]_vars

(***************************************************************************)
(* The tree of the test fixture setup_category (tests/products/tests/      *)
(* conftest.py): two top-level categories, Men's and Women's under Shoes,  *)
(* Boots under Women's, two children of Clothing; and the requests that    *)
(* move its rows or delete them.                                           *)
(***************************************************************************)
FixtureCreate(name, description, parent, type) ==
    [name |-> <<name>>, description |-> <<description>>, parent |-> parent,
     status |-> <<>>, order |-> <<>>, top_level_category |-> type]

setup_category ==
    << FixtureCreate(<<"S","h","o","e","s">>, "Shoes for all ages", <<>>, <<SHOES>>),
       FixtureCreate(<<"C","l","o","t","h","i","n","g">>, "Clothing for all styles",
                     <<>>, <<CLOTHING>>),
       FixtureCreate(<<"M","e","n","'","s">>, "Shoes for men", <<1>>, <<>>),
       FixtureCreate(<<"W","o","m","e","n","'","s">>, "Shoes for women", <<1>>, <<>>),
       FixtureCreate(<<"B","o","o","t","s">>, "Boots for women", <<4>>, <<>>),
       FixtureCreate(<<"M","e","n","'","s","c","l","o","t","h","i","n","g">>,
                     "Clothing for men", <<2>>, <<>>),
       FixtureCreate(<<"W","o","m","e","n","'","s","c","l","o","t","h","i","n","g">>,
                     "Clothing for women", <<2>>, <<>>) >>

RECURSIVE RunCreates(_, _, _)
RunCreates(cats, next, requests) ==
    IF requests = <<>> THEN [cats |-> cats, next |-> next]
    ELSE LET out == CreateView(cats, next, Head(requests), FALSE)
         IN  RunCreates(out.cats, out.next, Tail(requests))

FixtureTable == RunCreates(<<>>, 1, setup_category)

FixtureIds == 1..Len(setup_category)

\* PATCH bodies that hold a parent and nothing else
MoveRequests ==
    {[EmptyRequest EXCEPT !.parent = <<p>>] : p \in FixtureIds \cup {NoParent}}

InitFixture ==
    /\ categories = FixtureTable.cats
    /\ nextId = FixtureTable.next
    /\ calls = NoCalls

MoveCategory == UpdateWith(FixtureIds, MoveRequests)

DeleteFixtureCategory == DeleteWith(FixtureIds)

NextFixture == MoveCategory \/ DeleteFixtureCategory

SpecFixture == InitFixture /\ [][NextFixture]_vars

(***************************************************************************)
(* Two create requests served at the same time.  Nothing in               *)
(* CategoryViewSet.create, the serializer or Category.save opens a         *)
(* transaction or takes a lock, so a request is a sequence of separate     *)
(* statements on the table, and the statements of the two requests         *)
(* interleave in any order:                                                *)
(*   ValidateCall     is_valid: the field checks and validate() with its   *)
(*                    queries (serializers.py, lines 140-174);             *)
(*   AssignSlugCall   create() and the start of Category.clean: status and *)
(*                    type validation, name, the slug queries (models.py,  *)
(*                    lines 51-67);                                        *)
(*   AssignOrderCall  the rest of clean: assign_category_order's query     *)
(*                    (models.py, lines 69-71);                            *)
(*   InsertCall       super().save(): the INSERT, which the unique         *)
(*                    constraints of name and slug can refuse.             *)
(* Each worker serves one request, on the empty table or on the table that *)
(* holds the Shoes top-level category.                                     *)
(***************************************************************************)
ConcurrentRequests ==
    {req \in CreateRequests :
        /\ Has(req.description) /\ ~Has(req.order) /\ ~Has(req.status)
        /\ Has(req.parent) => Val(req.parent) = 1}

ConcurrentTables ==
    {RunCreates(<<>>, 1, <<>>), RunCreates(<<>>, 1, SubSeq(setup_category, 1, 1))}

InitConcurrent ==
    /\ \E start \in ConcurrentTables :
          categories = start.cats /\ nextId = start.next
    /\ calls = NoCalls

Ended(w, code) ==
    calls' = [calls EXCEPT ![w] = Call("done", @.req, @.row, code, NoInstance)]

ValidateCall(w) ==
    /\ calls[w].phase = "idle"
    /\ \E req \in ConcurrentRequests :
          LET verdict == IF FieldErrors(categories, NoInstance, FALSE, req)
                         THEN "ValidationError"
                         ELSE validate(categories, NoInstance, req)
          IN  calls' = [calls EXCEPT ![w] =
                          IF verdict = "ok"
                          THEN Call("validated", req, NoRow, "", NoInstance)
                          ELSE Call("done", req, NoRow, verdict, NoInstance)]
    /\ UNCHANGED <<categories, nextId>>

AssignSlugCall(w) ==
    /\ calls[w].phase = "validated"
    /\ LET instance == create(calls[w].req)
       IN  IF CleanRaises(instance)
           THEN Ended(w, "ValidationError")
           ELSE calls' = [calls EXCEPT ![w] =
                    Call("slugged", @.req,
                         [clean(categories, NoInstance, instance, FALSE)
                            EXCEPT !.order = instance.order],
                         "", NoInstance)]
    /\ UNCHANGED <<categories, nextId>>

AssignOrderCall(w) ==
    /\ calls[w].phase = "slugged"
    /\ calls' = [calls EXCEPT ![w] =
            Call("cleaned", @.req,
                 clean(categories, NoInstance, calls[w].row, FALSE),
                 "", NoInstance)]
    /\ UNCHANGED <<categories, nextId>>

InsertCall(w) ==
    /\ calls[w].phase = "cleaned"
    /\ IF IntegrityError(categories, NoInstance, calls[w].row)
       THEN /\ Ended(w, "IntegrityError")
            /\ UNCHANGED <<categories, nextId>>
       ELSE /\ categories' = Put(categories, nextId, calls[w].row)
            /\ nextId' = nextId + 1
            /\ calls' = [calls EXCEPT ![w] =
                            Call("done", @.req, @.row, "Created", nextId)]

NextConcurrent ==
    \E w \in Workers :
        ValidateCall(w) \/ AssignSlugCall(w) \/ AssignOrderCall(w) \/ InsertCall(w)

SpecConcurrent == InitConcurrent /\ [][NextConcurrent]_vars

(***************************************************************************)
(* CategorySerializer (serializers.py, lines 11-89): the representation of *)
(* a row with its children field, under the depth of the serializer        *)
(* context: <<>> when the context holds no depth (None), <<k>> otherwise.  *)
(* order_by('order') leaves rows of equal order in any order, so a         *)
(* queryset is the set of the sequences it can come in, and the            *)
(* representation of a row is the set of the values it can take.           *)
(***************************************************************************)
NoDepth == <<>>

\* MPTT get_descendants(): the rows below obj
get_descendants(cats, obj) == Cascade(cats, {obj}) \ {obj}

RECURSIVE order_by(_, _)
order_by(cats, S) ==
    IF S = {} THEN {<<>>}
    ELSE LET first == {c \in S : \A d \in S : cats[c].order <= cats[d].order}
         IN  UNION {{<<c>> \o rest : rest \in order_by(cats, S \ {c})} : c \in first}

RECURSIVE get_children(_, _, _)

\* CategorySerializer(obj, context={'depth': depth}).data
CategorySerializerData(cats, obj, depth) ==
    {[id          |-> obj,
      name        |-> cats[obj].name,
      slug        |-> cats[obj].slug,
      description |-> cats[obj].description,
      parent      |-> cats[obj].parent,
      status      |-> cats[obj].status,
      order       |-> cats[obj].order,
      children    |-> children] : children \in get_children(cats, obj, depth)}

\* CategorySerializer(queryset, many=True, context={'depth': depth}).data
RECURSIVE CategorySerializerMany(_, _, _)
CategorySerializerMany(cats, queryset, depth) ==
    IF queryset = <<>> THEN {<<>>}
    ELSE {<<head>> \o tail :
            head \in CategorySerializerData(cats, Head(queryset), depth),
            tail \in CategorySerializerMany(cats, Tail(queryset), depth)}

\* get_children without the branch for depth 0
get_children_without_zero(cats, obj, current_depth) ==
    IF current_depth = NoDepth
    THEN UNION {CategorySerializerMany(cats, children, current_depth) :
                    children \in order_by(cats, get_descendants(cats, obj))}
    ELSE UNION {CategorySerializerMany(cats, children, <<Val(current_depth) - 1>>) :
                    children \in order_by(cats, Children(cats, obj))}

\* get_children that hands its own depth down to the children
get_children_same_depth(cats, obj, current_depth) ==
    IF current_depth = <<0>> THEN {<<>>}
    ELSE IF current_depth = NoDepth
    THEN UNION {CategorySerializerMany(cats, children, current_depth) :
                    children \in order_by(cats, get_descendants(cats, obj))}
    ELSE UNION {CategorySerializerMany(cats, children, current_depth) :
                    children \in order_by(cats, Children(cats, obj))}

\* CategorySerializer.get_children, lines 60-89
get_children(cats, obj, current_depth) ==
    IF current_depth = <<0>> THEN {<<>>}
    ELSE IF current_depth = NoDepth
    THEN UNION {CategorySerializerMany(cats, children, current_depth) :
                    children \in order_by(cats, get_descendants(cats, obj))}
    ELSE IF current_depth = <<1>>
    THEN UNION {CategorySerializerMany(cats, children, <<0>>) :
                    children \in order_by(cats, Children(cats, obj))}
    ELSE UNION {CategorySerializerMany(cats, children, <<Val(current_depth) - 1>>) :
                    children \in order_by(cats, Children(cats, obj))}

(***************************************************************************)
(* CategoryViewSet.hierarchy (views.py, lines 153-190): the top-level      *)
(* categories, each with the children its depth allows.  The depth comes   *)
(* from the query string as text and goes through int(); a request without *)
(* it asks for depth 1.  The response lists the rows without a parent in   *)
(* the tree order of the manager, which the rows here do not carry: its    *)
(* data is given by row, as the set of the values the entry of that row    *)
(* can take.                                                               *)
(***************************************************************************)
RECURSIVE strip(_)
strip(s) ==
    IF s # <<>> /\ Head(s) = " " THEN strip(Tail(s))
    ELSE IF s # <<>> /\ s[Len(s)] = " " THEN strip(SubSeq(s, 1, Len(s) - 1))
    ELSE s

\* the value of a run of decimal digits
RECURSIVE DigitsValue(_)
DigitsValue(digits) ==
    IF digits = <<>> THEN 0
    ELSE 10 * DigitsValue(SubSeq(digits, 1, Len(digits) - 1))
         + (CHOOSE i \in 0..9 : DigitChars[i + 1] = digits[Len(digits)])

\* int(text): <<n>> for an optionally signed run of decimal digits, with
\* spaces around it or not; <<>> for any other text (ValueError)
int(text) ==
    LET stripped == strip(text)
        signed   == stripped # <<>> /\ Head(stripped) \in {"+", "-"}
        digits   == IF signed THEN Tail(stripped) ELSE stripped
    IN  IF digits = <<>> \/ \E i \in DOMAIN digits : ~IsDigit(digits[i])
        THEN <<>>
        ELSE IF signed /\ Head(stripped) = "-"
        THEN <<0 - DigitsValue(digits)>>
        ELSE <<DigitsValue(digits)>>

\* min(a, b)
min(a, b) == IF a <= b THEN a ELSE b

HierarchyResponse(code, data) == [code |-> code, data |-> data]

\* hierarchy that serializes with the depth it was asked for
hierarchy_unclamped(cats, params) ==
    LET requested_depth == IF Has(params.depth) THEN int(Val(params.depth)) ELSE <<1>>
    IN  IF requested_depth = <<>> \/ Val(requested_depth) < 0
        THEN HierarchyResponse("HTTP_400_BAD_REQUEST", <<>>)
        ELSE HierarchyResponse("HTTP_200_OK",
                 [c \in Children(cats, NoParent) |->
                     CategorySerializerData(cats, c, requested_depth)])

\* hierarchy that puts no depth into the context of a request without one
hierarchy_default_none(cats, params) ==
    LET max_depth == CATEGORY_MAX_DEPTH
        requested_depth == IF Has(params.depth) THEN int(Val(params.depth)) ELSE <<0>>
    IN  IF requested_depth = <<>> \/ Val(requested_depth) < 0
        THEN HierarchyResponse("HTTP_400_BAD_REQUEST", <<>>)
        ELSE LET depth == IF ~Has(params.depth) THEN NoDepth
                          ELSE IF Val(requested_depth) > 0
                          THEN <<min(Val(requested_depth), max_depth)>>
                          ELSE requested_depth
                 top_level_categories == Children(cats, NoParent)
             IN  HierarchyResponse("HTTP_200_OK",
                     [c \in top_level_categories |->
                         CategorySerializerData(cats, c, depth)])

hierarchy(cats, params) ==
    LET max_depth == CATEGORY_MAX_DEPTH
        requested_depth == IF Has(params.depth) THEN int(Val(params.depth)) ELSE <<1>>
    IN  IF requested_depth = <<>> \/ Val(requested_depth) < 0
        THEN HierarchyResponse("HTTP_400_BAD_REQUEST", <<>>)
        ELSE LET depth == IF Val(requested_depth) > 0
                          THEN min(Val(requested_depth), max_depth)
                          ELSE Val(requested_depth)
                 top_level_categories == Children(cats, NoParent)
             IN  HierarchyResponse("HTTP_200_OK",
                     [c \in top_level_categories |->
                         CategorySerializerData(cats, c, <<depth>>)])

(***************************************************************************)
(* GET categories/<pk>/ (retrieve): get_object over get_queryset, then the *)
(* CategorySerializer of the row, whose context holds no depth.            *)
(***************************************************************************)
\* retrieve that looks the row up in the whole table
retrieve_unfiltered(cats, pk, query) ==
    IF pk \notin DOMAIN cats
    THEN HierarchyResponse("NotFound", {})
    ELSE HierarchyResponse("HTTP_200_OK", CategorySerializerData(cats, pk, NoDepth))

retrieve(cats, pk, query) ==
    IF pk \notin get_queryset(cats, query)
    THEN HierarchyResponse("NotFound", {})
    ELSE HierarchyResponse("HTTP_200_OK", CategorySerializerData(cats, pk, NoDepth))

(***************************************************************************)
(* products/product_mapper.py: the product model of a category, taken from *)
(* the lower-cased name of the root of its tree; and the category branch   *)
(* of ProductViewSet.get_queryset (views.py, lines 391-405), which refuses *)
(* a category without a product model.                                     *)
(***************************************************************************)
\* MPTT get_root(): the parentless row above c, or c itself
RECURSIVE get_root(_, _)
get_root(cats, c) ==
    IF cats[c].parent = NoParent THEN c ELSE get_root(cats, cats[c].parent)

get_model_for_category(cats, category) ==
    LET root_category == str_lower(cats[get_root(cats, category)].name)
    IN  IF root_category = SHOES THEN "ShoeProduct"
        ELSE IF root_category = CLOTHING THEN "ClothingProduct"
        ELSE "None"

ResolveProductType(cats, category_id) ==
    IF category_id \notin DOMAIN cats THEN "NotFound"
    ELSE LET model == get_model_for_category(cats, category_id)
         IN  IF model = "None" THEN "UnsupportedCategoryType" ELSE model

(***************************************************************************)
(* Measures of the tree the properties below are stated with.  Walks up    *)
(* the parent links are cut after as many steps as the table has rows, so  *)
(* that they are defined on any table.                                     *)
(***************************************************************************)
RECURSIVE ChainUp(_, _, _)
ChainUp(cats, c, fuel) ==
    IF c = NoParent \/ c \notin DOMAIN cats \/ fuel = 0 THEN {}
    ELSE {c} \cup ChainUp(cats, cats[c].parent, fuel - 1)

\* the rows above c
AncestorsOf(cats, c) == ChainUp(cats, cats[c].parent, Cardinality(DOMAIN cats))

RECURSIVE HopsUp(_, _, _)
HopsUp(cats, c, fuel) ==
    IF cats[c].parent = NoParent THEN 0
    ELSE IF cats[c].parent \notin DOMAIN cats \/ fuel = 0 THEN 1
    ELSE 1 + HopsUp(cats, cats[c].parent, fuel - 1)

\* parent hops from c to a parentless row; more than the number of rows
\* when the walk never ends
Hops(cats, c) == HopsUp(cats, c, Cardinality(DOMAIN cats))

\* max(sibling orders) + 1, or 1 in an empty group
ExpectedOrder(cats, parent) ==
    LET orders == {cats[c].order : c \in {d \in DOMAIN cats : cats[d].parent = parent}}
    IN  IF orders = {} THEN 1
        ELSE (CHOOSE m \in orders : \A x \in orders : x <= m) + 1

CreateResult(req) == CreateView(categories, nextId, req, FALSE)

\* a create request that passes the field-level validation
WellFormed(req) == ~FieldErrors(categories, NoInstance, FALSE, req)

(***************************************************************************)
(* C1: every row has a top_level_category if and only if it has no parent. *)
(* Stated as claimed; the code breaks it both ways (a create that holds    *)
(* both keys, an update that holds parent = null).                         *)
(***************************************************************************)
C1_RootTypeIffNoParent ==
    \A c \in DOMAIN categories :
        (categories[c].top_level_category # NoType)
            <=> (categories[c].parent = NoParent)

(***************************************************************************)
(* C2: every row is at most CATEGORY_MAX_DEPTH parent hops away from the   *)
(* parentless row above it.  Stated as claimed; moving a row that has      *)
(* descendants breaks it.                                                  *)
(***************************************************************************)
C2_DepthBounded ==
    \A c \in DOMAIN categories : Hops(categories, c) <= CATEGORY_MAX_DEPTH

(***************************************************************************)
(* C3: no two rows with the same parent (or both parentless) have the same *)
(* order.  Stated as claimed; an update that moves a row keeps its order.  *)
(***************************************************************************)
C3_SiblingOrdersUnique ==
    \A c, d \in DOMAIN categories :
        (c # d /\ categories[c].parent = categories[d].parent)
            => categories[c].order # categories[d].order

(***************************************************************************)
(* C4: the parent relation is acyclic: no row is its own ancestor, and the *)
(* walk up from any row reaches a parentless row.                          *)
(***************************************************************************)
C4_Acyclic ==
    \A c \in DOMAIN categories :
        /\ c \notin AncestorsOf(categories, c)
        /\ Hops(categories, c) < Cardinality(DOMAIN categories)

\* a row was moved under a row created after it
C4_Witness ==
    \E c \in DOMAIN categories : categories[c].parent > c

(***************************************************************************)
(* C5: no two rows have the same name, and no two rows the same slug.      *)
(***************************************************************************)
C5_NameAndSlugUnique ==
    \A c, d \in DOMAIN categories :
        c # d => /\ categories[c].name # categories[d].name
                 /\ categories[c].slug # categories[d].slug

\* two rows whose names slugify to one base slug
C5_Witness ==
    \E c, d \in DOMAIN categories :
        /\ c # d
        /\ slugify(categories[c].name) = slugify(categories[d].name)

(***************************************************************************)
(* C6: at most one row carries a given top_level_category, and a create    *)
(* request whose top_level_category a row already carries leaves the table *)
(* unchanged; when the request passes the field-level validation, the      *)
(* error is the duplicate-type one.                                        *)
(***************************************************************************)
C6_TypeCarried(req) ==
    /\ TypeGiven(req)
    /\ \E c \in DOMAIN categories :
          categories[c].top_level_category = Val(req.top_level_category)

C6_SingleRootType ==
    /\ \A c, d \in DOMAIN categories :
          (c # d /\ categories[c].top_level_category # NoType)
            => categories[c].top_level_category # categories[d].top_level_category
    /\ \A req \in CreateRequests :
          C6_TypeCarried(req) =>
            LET out == CreateResult(req)
            IN  /\ out.cats = categories
                /\ out.next = nextId
                /\ WellFormed(req) => out.resp.code = "DuplicateTopLevelType"

\* both types are carried, and a request is refused as a duplicate
C6_Witness ==
    /\ \A t \in Types : \E c \in DOMAIN categories :
          categories[c].top_level_category = t
    /\ \E req \in CreateRequests :
          CreateResult(req).resp.code = "DuplicateTopLevelType"

(***************************************************************************)
(* C7: a step that deletes rows leaves no row that had a deleted row among *)
(* its ancestors, and no row whose parent is gone.                         *)
(***************************************************************************)
C7_DeleteRemovesSubtree ==
    [][LET gone == DOMAIN categories \ DOMAIN categories'
       IN  gone # {} =>
             \A c \in DOMAIN categories' :
                /\ AncestorsOf(categories, c) \cap gone = {}
                /\ categories'[c] = categories[c]
                /\ \/ categories'[c].parent = NoParent
                   \/ categories'[c].parent \in DOMAIN categories']_vars

\* two rows are gone, and a row remains
C7_Witness ==
    /\ \E c, d \in 1..(nextId - 1) :
          c # d /\ c \notin DOMAIN categories /\ d \notin DOMAIN categories
    /\ DOMAIN categories # {}

(***************************************************************************)
(* C8: a create succeeds only with exactly one of parent and               *)
(* top_level_category; with both or with neither the table is unchanged.   *)
(* Stated as claimed; the code accepts a create that holds both.           *)
(***************************************************************************)
C8_ExactlyOneOfParentAndType ==
    \A req \in CreateRequests :
        LET out == CreateResult(req)
        IN  /\ out.resp.code = "Created"
                  => (ParentGiven(req) /\ ~TypeGiven(req))
                      \/ (~ParentGiven(req) /\ TypeGiven(req))
            /\ (ParentGiven(req) /\ TypeGiven(req)) => out.cats = categories
            /\ (~ParentGiven(req) /\ ~TypeGiven(req)) => out.cats = categories

(***************************************************************************)
(* C9: with max depth 3, a create under a row two or more hops below its   *)
(* parentless ancestor leaves the table unchanged, with the depth error    *)
(* unless an earlier check refuses the request; a create of a named row    *)
(* under a parentless row or under a child of one succeeds, and puts the   *)
(* new row one hop below its parent.                                       *)
(***************************************************************************)
C9_ParentHops(req) == Hops(categories, Val(req.parent))

C9_DepthLimitOnCreate ==
    \A req \in CreateRequests :
        (ParentGiven(req) /\ Val(req.parent) \in DOMAIN categories) =>
            LET out  == CreateResult(req)
                hops == C9_ParentHops(req)
                bare == WellFormed(req) /\ ~TypeGiven(req)
            IN  /\ hops >= 2 =>
                      /\ out.cats = categories
                      /\ out.resp.code \in
                            {"MaxDepthExceeded", "DuplicateTopLevelType", "ValidationError"}
                      /\ bare => out.resp.code = "MaxDepthExceeded"
                /\ (hops <= 1 /\ bare /\ Has(req.name) /\ Val(req.name) # <<>>) =>
                      /\ out.resp.code = "Created"
                      /\ out.cats[nextId].parent = Val(req.parent)
                      /\ Hops(out.cats, nextId) = hops + 1

\* a grandchild of a top-level category exists, and a create under it is
\* refused for its depth
C9_Witness ==
    /\ \E c \in DOMAIN categories :
          /\ Hops(categories, c) = 2
          /\ categories[c].top_level_category = NoType
    /\ \E req \in CreateRequests :
          CreateResult(req).resp.code = "MaxDepthExceeded"

(***************************************************************************)
(* C10: every create that succeeds gives the new row the largest order of  *)
(* the rows with its parent plus one (1 when there is none), whatever      *)
(* order the request holds.                                                *)
(***************************************************************************)
C10_OrderIsMaxPlusOne ==
    \A req \in CreateRequests :
        LET out == CreateResult(req)
        IN  out.resp.code = "Created" =>
                out.cats[nextId].order =
                    ExpectedOrder(categories, out.cats[nextId].parent)

\* a sibling group whose orders have a gap below the largest one, and a
\* create into it that holds an order
C10_Witness ==
    /\ \E c \in DOMAIN categories :
          /\ categories[c].order >= 2
          /\ \A d \in DOMAIN categories :
                categories[d].parent = categories[c].parent
                    => categories[d].order >= categories[c].order
    /\ \E req \in CreateRequests :
          /\ Has(req.order)
          /\ CreateResult(req).resp.code = "Created"

(***************************************************************************)
(* C11: a create that holds a top_level_category and no parent, when it    *)
(* succeeds, stores a parentless row whose name is the label of the type   *)
(* and whose slug is the slug of that label ('shoes' gives 'Shoes' and     *)
(* 'shoes'), whatever name the request holds, with status active when the  *)
(* request holds none.                                                     *)
(***************************************************************************)
C11_RootRequest(req) == TypeGiven(req) /\ ~ParentGiven(req)

C11_RootNameAndSlugFromType ==
    \A req \in CreateRequests :
        C11_RootRequest(req) =>
            LET out  == CreateResult(req)
                type == Val(req.top_level_category)
            IN  out.resp.code = "Created" =>
                  /\ out.cats[nextId].parent = NoParent
                  /\ out.cats[nextId].top_level_category = type
                  /\ out.cats[nextId].name = CategoryChoicesLabel(type)
                  /\ out.cats[nextId].slug = slugify(CategoryChoicesLabel(type))
                  /\ type = SHOES =>
                        /\ out.cats[nextId].name = <<"S", "h", "o", "e", "s">>
                        /\ out.cats[nextId].slug = <<"s", "h", "o", "e", "s">>
                  /\ ~Has(req.status) => out.cats[nextId].status = "active"

\* a create of the 'shoes' top-level category that holds another name and
\* no status succeeds
C11_Witness ==
    \E req \in CreateRequests :
        /\ C11_RootRequest(req)
        /\ Val(req.top_level_category) = SHOES
        /\ Has(req.name) /\ Val(req.name) # CategoryChoicesLabel(SHOES)
        /\ ~Has(req.status)
        /\ CreateResult(req).resp.code = "Created"

(***************************************************************************)
(* Updates, as the properties below address them: PATCH requests on the    *)
(* current table, with a second description so that a change of the        *)
(* description shows.                                                      *)
(***************************************************************************)
UpdateResult(pk, query, req) ==
    UpdateView(categories, nextId, pk, query, "PATCH", req)

Found(pk, query) == pk \in get_queryset(categories, query)

ProbeUpdateRequests ==
    UpdateRequests \cup
        {[req EXCEPT !.description = <<"d2">>] :
            req \in {r \in UpdateRequests : Has(r.description)}}

\* the errors an update request is refused with
UpdateErrors ==
    {"NotFound", "InvalidStatus", "ValidationError", "DuplicateTopLevelType",
     "BothParentAndType", "MaxDepthExceeded", "ImmutableTopLevelField",
     "SelfParent", "InvalidParentIsRoot", "IntegrityError"}

(***************************************************************************)
(* C12: for a row without parent, an update that holds name or parent is   *)
(* refused and leaves the table as it was, a status in the same request    *)
(* included; the error is the immutable-field one when the row is found    *)
(* and nothing earlier refuses the request.  An update that holds only     *)
(* description and / or status succeeds and changes those two fields only. *)
(***************************************************************************)
C12_Plain(req) ==
    /\ ~Has(req.top_level_category)
    /\ Has(req.parent) =>
          \/ Val(req.parent) = NoParent
          \/ /\ Val(req.parent) \in DOMAIN categories
             /\ Hops(categories, Val(req.parent)) <= 1
    /\ Has(req.name) =>
          \A c \in DOMAIN categories : categories[c].name # Val(req.name)

C12_TopLevelFieldsImmutable ==
    \A pk \in DOMAIN categories :
        categories[pk].parent = NoParent =>
            \A query \in Queries, req \in ProbeUpdateRequests :
                LET out == UpdateResult(pk, query, req)
                IN  /\ (Has(req.name) \/ Has(req.parent)) =>
                          /\ out.cats = categories
                          /\ out.resp.code \in UpdateErrors
                          /\ (Found(pk, query) /\ C12_Plain(req))
                                => out.resp.code = "ImmutableTopLevelField"
                    /\ ( /\ Found(pk, query)
                         /\ ~Has(req.name) /\ ~Has(req.parent)
                         /\ ~Has(req.top_level_category) ) =>
                          /\ out.resp.code = "Updated"
                          /\ out.cats =
                                [categories EXCEPT
                                    ![pk].description =
                                        IF Has(req.description)
                                        THEN Val(req.description) ELSE @,
                                    ![pk].status =
                                        IF Has(req.status)
                                        THEN Val(req.status) ELSE @]

\* a top-level row for which a request holding a name and another status
\* is refused, and a request holding another description changes the row
C12_Witness ==
    \E pk \in DOMAIN categories, query \in Queries :
        /\ categories[pk].parent = NoParent
        /\ \E req \in ProbeUpdateRequests :
              /\ Has(req.name) /\ Has(req.status)
              /\ Val(req.status) # categories[pk].status
              /\ UpdateResult(pk, query, req).resp.code = "ImmutableTopLevelField"
        /\ \E req \in ProbeUpdateRequests :
              /\ Has(req.description)
              /\ UpdateResult(pk, query, req).resp.code = "Updated"
              /\ UpdateResult(pk, query, req).cats # categories

(***************************************************************************)
(* C13: the top_level_category of a row is the same in every state from    *)
(* the row's creation to its deletion (primary keys are not handed out     *)
(* twice), and every update that holds a top_level_category is refused and *)
(* leaves the table as it was, whether the row has a parent or not; the    *)
(* error is the immutable-field one when the row is found and the request  *)
(* holds nothing else and no other row carries the type.                   *)
(***************************************************************************)
C13_TypeUpdatesRefused ==
    \A pk \in DOMAIN categories, query \in Queries, req \in UpdateRequests :
        Has(req.top_level_category) =>
            LET out == UpdateResult(pk, query, req)
            IN  /\ out.cats = categories
                /\ out.resp.code \in UpdateErrors
                /\ ( /\ Found(pk, query)
                     /\ FieldCount(req) = 1
                     /\ \A c \in DOMAIN categories \ {pk} :
                           categories[c].top_level_category
                               # Val(req.top_level_category) )
                      => out.resp.code = "ImmutableTopLevelField"

C13_TypeKept ==
    \A c \in DOMAIN categories \cap DOMAIN categories' :
        categories'[c].top_level_category = categories[c].top_level_category

C13_RootTypeNeverChanges ==
    [][C13_TypeKept]_vars /\ []C13_TypeUpdatesRefused

\* a row with a top_level_category and a row without one, whose other
\* fields an update has changed, and for both an update that holds the
\* type that no row carries is refused
C13_Witness ==
    /\ \E c, d \in DOMAIN categories :
          /\ categories[c].top_level_category # NoType
          /\ categories[c].status = "inactive"
          /\ categories[d].top_level_category = NoType
          /\ categories[d].parent > d
    /\ \A pk \in DOMAIN categories :
          \E query \in Queries, req \in UpdateRequests :
              /\ Has(req.top_level_category)
              /\ UpdateResult(pk, query, req).resp.code = "ImmutableTopLevelField"

(***************************************************************************)
(* C14: an update of a row that has a parent, holding the row's own id as  *)
(* parent, is refused and leaves the table as it was; the error is the     *)
(* self-parent one when the row is found, sits directly under a row        *)
(* without parent, and the request holds nothing else.                     *)
(***************************************************************************)
C14_SelfParentRefused ==
    \A pk \in DOMAIN categories :
        categories[pk].parent # NoParent =>
            \A query \in Queries, req \in UpdateRequests :
                (Has(req.parent) /\ Val(req.parent) = pk) =>
                    LET out == UpdateResult(pk, query, req)
                    IN  /\ out.cats = categories
                        /\ out.resp.code \in UpdateErrors
                        /\ ( /\ Found(pk, query)
                             /\ FieldCount(req) = 1
                             /\ Hops(categories, pk) = 1 )
                              => out.resp.code = "SelfParent"

\* a found row one hop down, whose update with its own id is refused as
\* self-parent
C14_Witness ==
    \E pk \in DOMAIN categories, query \in Queries, req \in UpdateRequests :
        /\ categories[pk].parent # NoParent
        /\ Has(req.parent) /\ Val(req.parent) = pk
        /\ UpdateResult(pk, query, req).resp.code = "SelfParent"

(***************************************************************************)
(* C15: an update of a row that has a parent, holding as parent a row      *)
(* that has none, is refused and leaves the table as it was; the error is  *)
(* the parent-is-root one when the row is found and the request holds      *)
(* nothing else.  So no step gives a row that stays in the table a new     *)
(* parent that has no parent itself.                                       *)
(***************************************************************************)
C15_RootParentRefused ==
    \A pk \in DOMAIN categories :
        categories[pk].parent # NoParent =>
            \A query \in Queries, req \in UpdateRequests :
                ( /\ ParentGiven(req)
                  /\ Val(req.parent) \in DOMAIN categories
                  /\ categories[Val(req.parent)].parent = NoParent ) =>
                    LET out == UpdateResult(pk, query, req)
                    IN  /\ out.cats = categories
                        /\ out.resp.code \in UpdateErrors
                        /\ (Found(pk, query) /\ FieldCount(req) = 1)
                              => out.resp.code = "InvalidParentIsRoot"

C15_NoMoveUnderRoot ==
    \A c \in DOMAIN categories \cap DOMAIN categories' :
        ( /\ categories'[c].parent # categories[c].parent
          /\ categories'[c].parent # NoParent ) =>
            /\ categories[categories'[c].parent].parent # NoParent
            /\ categories'[categories'[c].parent].parent # NoParent

C15_NeverMovedUnderRoot ==
    [][C15_NoMoveUnderRoot]_vars /\ []C15_RootParentRefused

\* a row was moved (its parent was created after it), and an update that
\* holds a parentless row as parent is refused as parent-is-root
C15_Witness ==
    /\ \E c \in DOMAIN categories : categories[c].parent > c
    /\ \E pk \in DOMAIN categories, query \in Queries, req \in UpdateRequests :
          /\ categories[pk].parent # NoParent
          /\ ParentGiven(req)
          /\ UpdateResult(pk, query, req).resp.code = "InvalidParentIsRoot"

(***************************************************************************)
(* C16: an update that renames a row that has a parent succeeds and stores *)
(* the first free slug among base, base-1, base-2, ... for the base slug   *)
(* of the new name, the row's own slug not counting as taken.  Stated as   *)
(* claimed; update() stores the base slug as it is, and the save fails     *)
(* when another row owns it.                                               *)
(***************************************************************************)
C16_RenameAllocatesSlug ==
    \A pk \in DOMAIN categories :
        categories[pk].parent # NoParent =>
            \A query \in Queries, req \in UpdateRequests :
                ( /\ Found(pk, query)
                  /\ FieldCount(req) = 1
                  /\ Has(req.name) /\ Val(req.name) # <<>>
                  /\ \A c \in DOMAIN categories \ {pk} :
                        categories[c].name # Val(req.name) ) =>
                    LET out == UpdateResult(pk, query, req)
                    IN  /\ out.resp.code = "Updated"
                        /\ out.cats[pk].name = Val(req.name)
                        /\ out.cats[pk].slug =
                              UniqueSlug(categories, pk, slugify(Val(req.name)))

(***************************************************************************)
(* C17: every create that succeeds stores the first free slug among base,  *)
(* base-1, base-2, ... for the base slug of the row's name, and no create  *)
(* fails on the uniqueness of the slug alone (a create that the database   *)
(* refuses has a name that a row owns).  Stated as claimed; a top-level    *)
(* row is saved with the base slug as it is.                               *)
(***************************************************************************)
C17_Name(req) ==
    IF TypeGiven(req) THEN CategoryChoicesLabel(Val(req.top_level_category))
    ELSE IF Has(req.name) THEN Val(req.name) ELSE <<>>

C17_CreateAllocatesSlug ==
    \A req \in CreateRequests :
        LET out == CreateResult(req)
        IN  /\ out.resp.code = "Created" =>
                  out.cats[nextId].slug =
                      UniqueSlug(categories, NoInstance, slugify(C17_Name(req)))
            /\ out.resp.code = "IntegrityError" =>
                  \E c \in DOMAIN categories : categories[c].name = C17_Name(req)

(***************************************************************************)
(* The representations of the rows of the table, as the properties below   *)
(* address them.                                                           *)
(***************************************************************************)
\* the depths a traversal is asked for
Depths == {1, 2, 3}

Representations(c, depth) == CategorySerializerData(categories, c, depth)

\* the ids in a children list, and whether the list names each once
ChildIds(tree) == {tree.children[i].id : i \in DOMAIN tree.children}
NoRepeats(tree) == Cardinality(ChildIds(tree)) = Len(tree.children)

\* tree holds the rows below its row down to k hops, each under its parent
RECURSIVE NestedTo(_, _)
NestedTo(tree, k) ==
    IF k = 0 THEN tree.children = <<>>
    ELSE /\ ChildIds(tree) = Children(categories, tree.id)
         /\ NoRepeats(tree)
         /\ \A i \in DOMAIN tree.children : NestedTo(tree.children[i], k - 1)

(***************************************************************************)
(* C18: with depth 0 the representation of a row is the row itself with    *)
(* an empty children list, whether the row has children or not.            *)
(***************************************************************************)
C18_DepthZeroNoChildren ==
    \A c \in DOMAIN categories :
        /\ Representations(c, <<0>>) # {}
        /\ \A tree \in Representations(c, <<0>>) :
              /\ tree.id = c
              /\ tree.name = categories[c].name
              /\ tree.children = <<>>

\* a row with children and a row without
C18_Witness ==
    /\ \E c \in DOMAIN categories :
          /\ Children(categories, c) # {}
          /\ \E tree \in Representations(c, <<0>>) : tree.children = <<>>
    /\ \E c \in DOMAIN categories : Children(categories, c) = {}

(***************************************************************************)
(* C19: with depth k >= 1 the representation of a row holds exactly the    *)
(* rows at most k hops below it, each once and in the children list of its *)
(* parent, and the rows k hops below have an empty children list.          *)
(***************************************************************************)
C19_DepthBoundedNesting ==
    \A c \in DOMAIN categories, k \in Depths :
        /\ Representations(c, <<k>>) # {}
        /\ \A tree \in Representations(c, <<k>>) :
              tree.id = c /\ NestedTo(tree, k)

\* a row with rows three hops below it: depth 1 gives children without
\* children, depth 2 gives grandchildren without children
C19_Witness ==
    \E c, d \in DOMAIN categories :
        /\ Hops(categories, d) >= 3
        /\ c \in AncestorsOf(categories, d)
        /\ Hops(categories, c) = 0
        /\ \E tree \in Representations(c, <<2>>) :
              \E i \in DOMAIN tree.children :
                \E j \in DOMAIN tree.children[i].children :
                    /\ tree.children[i].children[j].children = <<>>
                    /\ Children(categories, tree.children[i].children[j].id) # {}

(***************************************************************************)
(* C20: without depth the representation of a row is its whole subtree as  *)
(* a tree: every row below it appears once, in the children list of its    *)
(* parent, so that a children list holds the immediate children only.      *)
(* Stated as claimed; the code puts every descendant into the children     *)
(* list of every row above it.                                             *)
(***************************************************************************)
C20_FullSubtreeAsTree ==
    \A c \in DOMAIN categories :
        \A tree \in Representations(c, NoDepth) :
            tree.id = c /\ NestedTo(tree, Cardinality(DOMAIN categories))

(***************************************************************************)
(* The depth texts a hierarchy request is sent with: the ones that are     *)
(* integers from 0 on, with their values, and the ones that are negative   *)
(* or no integers.                                                         *)
(***************************************************************************)
DepthIntegers ==
    {[text |-> <<"0">>, value |-> 0], [text |-> <<"1">>, value |-> 1],
     [text |-> <<"2">>, value |-> 2], [text |-> <<"3">>, value |-> 3],
     [text |-> <<"4">>, value |-> 4], [text |-> <<"9">>, value |-> 9],
     [text |-> <<"1","2">>, value |-> 12], [text |-> <<"+","2">>, value |-> 2],
     [text |-> <<" ","2">>, value |-> 2]}

DepthRefused ==
    {<<"-","1">>, <<"-","3">>, <<"a","b","c">>, <<"1",".","5">>, <<"2","x">>,
     <<"-">>, <<>>}

HierarchyOf(text) == hierarchy(categories, [depth |-> <<text>>])

\* the response holds an entry for each row without a parent, nested to k
HierarchyNestedTo(out, k) ==
    /\ out.code = "HTTP_200_OK"
    /\ DOMAIN out.data = Children(categories, NoParent)
    /\ \A c \in DOMAIN out.data :
          /\ out.data[c] # {}
          /\ \A tree \in out.data[c] : tree.id = c /\ NestedTo(tree, k)

(***************************************************************************)
(* C21: a hierarchy request with an integer depth d >= 1 is answered with  *)
(* the depth min(d, CATEGORY_MAX_DEPTH), so that no entry nests more than  *)
(* CATEGORY_MAX_DEPTH levels below its top-level row; depth 0 is applied   *)
(* as 0; a negative depth and a depth that is no integer are refused with  *)
(* an error.                                                               *)
(***************************************************************************)
C21_DepthClamped ==
    /\ \A d \in DepthIntegers :
          HierarchyNestedTo(HierarchyOf(d.text),
                            IF d.value > CATEGORY_MAX_DEPTH
                            THEN CATEGORY_MAX_DEPTH ELSE d.value)
    /\ \A text \in DepthRefused :
          HierarchyOf(text).code = "HTTP_400_BAD_REQUEST"

\* a row four hops below its top-level row, and depth 9: the entry stops at
\* a row three hops down that has a child
C21_Witness ==
    \E c, d \in DOMAIN categories :
        /\ Hops(categories, d) = 3
        /\ Children(categories, d) # {}
        /\ c \in AncestorsOf(categories, d)
        /\ categories[c].parent = NoParent
        /\ \E tree \in HierarchyOf(<<"9">>).data[c] :
              \E i \in DOMAIN tree.children :
                \E j \in DOMAIN tree.children[i].children :
                  \E k \in DOMAIN tree.children[i].children[j].children :
                    LET leaf == tree.children[i].children[j].children[k]
                    IN  leaf.id = d /\ leaf.children = <<>>

(***************************************************************************)
(* C27: a hierarchy request without a depth is answered with depth 1:      *)
(* each row without a parent with its immediate children, each of them     *)
(* with an empty children list; never with the traversal without a depth.  *)
(***************************************************************************)
C27_DefaultDepthOne ==
    LET out == hierarchy(categories, [depth |-> <<>>])
    IN  /\ HierarchyNestedTo(out, 1)
        /\ \A c \in DOMAIN out.data :
              \A tree \in out.data[c] :
                \A i \in DOMAIN tree.children : tree.children[i].children = <<>>

\* a top-level row with grandchildren: its entry holds the child without
\* the grandchildren
C27_Witness ==
    \E c, d \in DOMAIN categories :
        /\ categories[c].parent = NoParent
        /\ categories[d].parent = c
        /\ Children(categories, d) # {}
        /\ \E tree \in hierarchy(categories, [depth |-> <<>>]).data[c] :
              \E i \in DOMAIN tree.children :
                  tree.children[i].id = d /\ tree.children[i].children = <<>>

(***************************************************************************)
(* C28: as long as no update has run, with max depth 3 every row is at     *)
(* most two parent hops from its parentless ancestor: in the table, and in *)
(* the table any create request would leave.                               *)
(***************************************************************************)
C28_TwoHopsWithoutUpdate ==
    /\ \A c \in DOMAIN categories : Hops(categories, c) <= CATEGORY_MAX_DEPTH - 1
    /\ \A req \in CreateRequests :
          LET out == CreateResult(req)
          IN  \A c \in DOMAIN out.cats : Hops(out.cats, c) <= CATEGORY_MAX_DEPTH - 1

\* a row two hops down, and a create under it that is refused for its depth
C28_Witness ==
    \E c \in DOMAIN categories :
        /\ Hops(categories, c) = CATEGORY_MAX_DEPTH - 1
        /\ \E req \in CreateRequests :
              /\ req.parent = <<c>>
              /\ CreateResult(req).resp.code = "MaxDepthExceeded"
              /\ CreateResult(req).cats = categories

(***************************************************************************)
(* C29: every row that has a top_level_category is named with the label of *)
(* that choice, after every save: a create that names the row otherwise,   *)
(* and an update that holds another name, included.                        *)
(***************************************************************************)
C29_TypedRowNamedByLabel ==
    \A c \in DOMAIN categories :
        categories[c].top_level_category # NoType =>
            categories[c].name = CategoryChoicesLabel(categories[c].top_level_category)

\* a row with a top_level_category that an update has renamed to "Men": the
\* slug is the one of the new name, the name is the label
C29_Witness ==
    \E c \in DOMAIN categories :
        /\ categories[c].top_level_category # NoType
        /\ categories[c].slug = <<"m","e","n">>
        /\ categories[c].name = CategoryChoicesLabel(categories[c].top_level_category)

(***************************************************************************)
(* Requests that hold no is_active parameter.                              *)
(***************************************************************************)
DefaultQuery == [is_active |-> <<>>, parent_id |-> <<>>]
AllQuery == [is_active |-> <<ALL_STR>>, parent_id |-> <<>>]

\* the rows of the table that are not active
NotActive == {c \in DOMAIN categories : categories[c].status # "active"}

\* every row that is not active is in cats as it is in the table
NotActiveKept(cats) ==
    \A c \in NotActive : c \in DOMAIN cats => cats[c] = categories[c]

(***************************************************************************)
(* C30: a retrieve, an update and a destroy that are addressed to a row    *)
(* whose status is not active and hold no is_active parameter do not find  *)
(* the row and leave the table as it is; and no update or destroy without  *)
(* is_active, whatever row it is addressed to, changes a row that is not   *)
(* active, so that through these requests a row that left active never     *)
(* becomes active again.                                                   *)
(***************************************************************************)
C30_NotActiveOutOfReach ==
    /\ \A pk \in NotActive :
          /\ retrieve(categories, pk, DefaultQuery).code = "NotFound"
          /\ LET out == DestroyView(categories, nextId, pk, DefaultQuery)
             IN  out.resp.code = "NotFound" /\ out.cats = categories
          /\ \A req \in ProbeUpdateRequests :
                LET out == UpdateResult(pk, DefaultQuery, req)
                IN  out.resp.code = "NotFound" /\ out.cats = categories
    /\ \A pk \in DOMAIN categories \ NotActive :
          /\ LET out == DestroyView(categories, nextId, pk, DefaultQuery)
             IN  \A c \in NotActive \cap DOMAIN out.cats : out.cats[c] = categories[c]
          /\ \A req \in UpdateRequests :
                NotActiveKept(UpdateResult(pk, DefaultQuery, req).cats)

\* an inactive row, and an update to active that changes it when it is sent
\* with is_active=all and does not find it when it is sent without
C30_Witness ==
    \E pk \in NotActive :
        LET req == [EmptyRequest EXCEPT !.status = <<"active">>]
        IN  /\ UpdateResult(pk, AllQuery, req).resp.code = "Updated"
            /\ UpdateResult(pk, AllQuery, req).cats[pk].status = "active"
            /\ UpdateResult(pk, DefaultQuery, req).resp.code = "NotFound"

(***************************************************************************)
(* C26, as claimed: after every create that succeeds, whatever its status, *)
(* a retrieve of the new row without query parameters finds it and returns *)
(* the name, slug, order and status that were stored.                      *)
(***************************************************************************)
C26_SameAsStored(response, row) ==
    /\ response.code = "HTTP_200_OK"
    /\ response.data # {}
    /\ \A tree \in response.data :
          /\ tree.name = row.name
          /\ tree.slug = row.slug
          /\ tree.order = row.order
          /\ tree.status = row.status

C26_CreateThenGet ==
    \A req \in CreateRequests :
        LET out == CreateResult(req)
        IN  out.resp.code = "Created" =>
                C26_SameAsStored(retrieve(out.cats, nextId, DefaultQuery),
                                 out.cats[nextId])

(***************************************************************************)
(* C26, amended: after every create that succeeds, a retrieve of the new   *)
(* row returns the name, slug, order and status that were stored when the  *)
(* row is active or the retrieve is sent with is_active=all; a retrieve    *)
(* without query parameters of a row created with another status does not  *)
(* find it.                                                                *)
(***************************************************************************)
C26_CreateThenGetIfVisible ==
    \A req \in CreateRequests :
        LET out == CreateResult(req)
        IN  out.resp.code = "Created" =>
                LET row == out.cats[nextId]
                IN  /\ C26_SameAsStored(retrieve(out.cats, nextId, AllQuery), row)
                    /\ IF row.status = "active"
                       THEN C26_SameAsStored(retrieve(out.cats, nextId, DefaultQuery), row)
                       ELSE retrieve(out.cats, nextId, DefaultQuery).code = "NotFound"

\* a row that was created inactive and a row that was created active: the
\* first is found with is_active=all only, the second without parameters
C26_Witness ==
    /\ \E c \in DOMAIN categories :
          /\ categories[c].status = "inactive"
          /\ retrieve(categories, c, DefaultQuery).code = "NotFound"
          /\ C26_SameAsStored(retrieve(categories, c, AllQuery), categories[c])
    /\ \E c \in DOMAIN categories :
          /\ categories[c].status = "active"
          /\ C26_SameAsStored(retrieve(categories, c, DefaultQuery), categories[c])

(***************************************************************************)
(* C25: the product type of a row is the one registered for the            *)
(* top_level_category of the parentless row above it (shoes, clothing),    *)
(* and the unsupported-type error when that row has none that is           *)
(* registered; nothing but that top_level_category decides it.  Stated as  *)
(* claimed; the code decides by the name of the parentless row, which is   *)
(* free once a row has been detached from its parent.                      *)
(***************************************************************************)
C25_RegisteredFor(type) ==
    IF type = SHOES THEN "ShoeProduct"
    ELSE IF type = CLOTHING THEN "ClothingProduct"
    ELSE "UnsupportedCategoryType"

C25_ResolvedByRootType ==
    \A c \in DOMAIN categories :
        ResolveProductType(categories, c) =
            C25_RegisteredFor(
                categories[get_root(categories, c)].top_level_category)

(***************************************************************************)
(* C24: when the query for the largest sibling order raises during a       *)
(* create, the error goes no further: the create ends as it ends without   *)
(* the error, and when it succeeds the new row is stored with order 1 and  *)
(* is otherwise the row it would have been, and every row that was stored  *)
(* before is as it was.  The order 1 is given whatever orders the siblings *)
(* of the new row have.                                                    *)
(***************************************************************************)
C24_FallbackToOne ==
    \A req \in CreateRequests :
        LET plain == CreateView(categories, nextId, req, FALSE)
            out   == CreateView(categories, nextId, req, TRUE)
        IN  /\ out.resp = plain.resp
            /\ out.resp.code = "Created" =>
                  /\ out.next = nextId + 1
                  /\ DOMAIN out.cats = DOMAIN categories \cup {nextId}
                  /\ out.cats[nextId] = [plain.cats[nextId] EXCEPT !.order = 1]
                  /\ \A c \in DOMAIN categories : out.cats[c] = categories[c]
            /\ out.resp.code # "Created" => out.cats = categories

\* a create whose query raised has stored a row with order 1 next to a
\* sibling that has order 1
C24_Witness ==
    \E c, d \in DOMAIN categories :
        /\ c < d
        /\ categories[c].parent = categories[d].parent
        /\ categories[c].order = 1
        /\ categories[d].order = 1

(***************************************************************************)
(* The create requests served at the same time that have stored a row.     *)
(***************************************************************************)
Committed == {w \in Workers : calls[w].code = "Created"}

\* the type a request holds, <<>> when it holds none
TypeOf(req) ==
    IF TypeGiven(req) THEN str_lower(Val(req.top_level_category)) ELSE NoType

\* a run of one request after the other ends as CreateView ends
SerialAsCreateView ==
    \A w \in Workers :
        (calls[w].phase = "done" /\ \A v \in Workers \ {w} : calls[v].phase = "idle") =>
            \E start \in ConcurrentTables :
                LET out == CreateView(start.cats, start.next, calls[w].req, FALSE)
                IN  out.cats = categories /\ out.resp.code = calls[w].code

(***************************************************************************)
(* C22: two create requests served at the same time that name the same     *)
(* parent, or none, store rows with different orders, however their        *)
(* statements interleave.  Stated as claimed; the code reads the largest   *)
(* order and inserts the row in two statements with nothing to hold the    *)
(* other request off in between.                                           *)
(***************************************************************************)
C22_ConcurrentOrdersDiffer ==
    \A v, w \in Committed :
        ( /\ v # w
          /\ categories[calls[v].pk].parent = categories[calls[w].pk].parent ) =>
            categories[calls[v].pk].order # categories[calls[w].pk].order

(***************************************************************************)
(* C23: of two create requests served at the same time that hold the same  *)
(* top_level_category at most one stores a row, and no two rows of the     *)
(* table have the same top_level_category, also when both requests have    *)
(* passed the duplicate check of validate() before either has inserted.    *)
(***************************************************************************)
C23_OneCommitPerType ==
    /\ \A v, w \in Committed :
          (v # w /\ TypeOf(calls[v].req) # NoType) =>
              TypeOf(calls[v].req) # TypeOf(calls[w].req)
    /\ \A c, d \in DOMAIN categories :
          (c # d /\ categories[c].top_level_category # NoType) =>
              categories[c].top_level_category # categories[d].top_level_category

\* both requests hold the same type and have passed validate(); one has
\* stored its row and the insert of the other was refused
C23_Witness ==
    \E v, w \in Workers :
        /\ calls[v].code = "Created"
        /\ calls[w].code = "IntegrityError"
        /\ TypeOf(calls[v].req) # NoType
        /\ TypeOf(calls[v].req) = TypeOf(calls[w].req)

====
